---- MODULE Spec2Model ----
(***************************************************************************)
(* Model of the QOI-style codec of src/encode.cpp: struct RGBValue and     *)
(* class QOI_Image (index[64], m_RGBBytes, m_QOIBytes, encode, decode,     *)
(* readBMP, readQOI, writeQOI).  encode() and decode() are modelled one    *)
(* loop iteration (one opcode) per step.                                   *)
(*                                                                         *)
(* Reads the C++ leaves undefined are modelled as a choice among the       *)
(* values the memory may hold, or a crash:                                 *)
(*   - RGBValue() leaves red/green/blue unset (line 24-26);                *)
(*   - operator[] past size() (lines 269, 343-345, 372);                   *)
(*   - back() of an empty vector (lines 365, 379, 388).                    *)
(***************************************************************************)
EXTENDS Integers, Sequences, FiniteSets, TLC

\* ---------------------------------------------------------------- bounds
\* longest pixel grid enumerated exhaustively over Palette
MaxLen == 1
\* number of encode()/decode() calls in one behaviour
MaxPasses == 2
\* number of elements past the end of m_RGBBytes that may compare equal
MaxOverrun == 1

\* ------------------------------------------------------ program constants
\* number of slots of RGBValue index[64]
CacheSize == 64
\* longest run one QOI_OP_RUN byte carries (encode, "runLength >= 62")
RunCap == 62
\* the QOI_OP_RGB byte 0b11111110
OpRGB == 254
\* the opcode tags 0b01000000, 0b10000000, 0b11000000
TagDiff == 64
TagLuma == 128
TagRun == 192

\* ------------------------------------------------------------ RGBValue
\* RGBValue(r, g, b): the three channels, isNull = false
RGBValue(r, g, b) == [red |-> r, green |-> g, blue |-> b, isNull |-> FALSE]

\* values an unset uint8_t may hold
GarbageBytes == {0, 205}

\* RGBValue(): isNull = true, the channels are left unset
NullRGBValues ==
    {[red |-> c, green |-> c, blue |-> c, isNull |-> TRUE] : c \in GarbageBytes}

\* an RGBValue-sized piece of memory that was never constructed
GarbagePixels ==
    {[red |-> c, green |-> c, blue |-> c, isNull |-> n] :
        c \in GarbageBytes, n \in BOOLEAN}

\* operator==: compares the channels, not isNull
PixelEq(p, q) == p.red = q.red /\ p.green = q.green /\ p.blue = q.blue

hash_Mod32(p) == (p.red * 3 + p.green * 5 + p.blue * 7) % 32

\* RGBValue::hash
hash(p) == (p.red * 3 + p.green * 5 + p.blue * 7) % 64

\* conversion of an int to uint8_t
U8(x) == x % 256

Min(a, b) == IF a < b THEN a ELSE b

\* ---------------------------------------------------------------- inputs
PxBlack == RGBValue(0, 0, 0)
PxA == RGBValue(10, 10, 10)
PxB == RGBValue(20, 20, 20)
PxC == RGBValue(10, 20, 30)
\* PxA + (1,1,1) and PxA + (2,0,0)
PxD == RGBValue(11, 11, 11)
PxE == RGBValue(12, 10, 10)
\* two pixels far apart that share the hash slot 44
PxF == RGBValue(100, 0, 0)
PxG == RGBValue(0, 0, 52)

\* the pixels of the grids that are enumerated exhaustively
Palette == {PxBlack, PxA, PxD, PxF, PxG}

Rep(p, n) == [i \in 1..n |-> p]

\* grids with a run of exactly RunCap, of RunCap - 1, and the scenarios
ScenarioGrids ==
    { <<PxA, PxB, PxA>>,
      Rep(PxC, 4),
      <<PxA, PxA>>,
      <<PxBlack, PxBlack, PxF>>,
      <<PxA, PxD, PxE>>,
      <<PxA, PxE, PxD>>,
      <<PxF, PxG>>,
      <<PxG, PxC, PxF>>,
      Rep(PxA, RunCap) \o <<PxB>>,
      Rep(PxA, RunCap + 1) \o <<PxB>>,
      Rep(PxBlack, RunCap + 1),
      Rep(PxA, RunCap + 2) \o <<PxF>>,
      <<PxF, PxG, PxF, PxG>>,
      <<PxF, PxA, PxG, PxA, PxF>> }

\* the pixel sequences readBMP may deliver
Grids == UNION {[1..n -> Palette] : n \in 0..MaxLen} \cup ScenarioGrids

NoFile == [exists |-> FALSE]

\* a BMP file on disk holding the pixels g in one row
BmpFiles ==
    {[exists |-> TRUE, width |-> Len(g), height |-> 1, pixels |-> g] : g \in Grids}

\* the 8-byte end marker writeQOI appends
endMarker == <<0, 0, 0, 0, 0, 0, 0, 1>>

\* opcode streams not produced by this encoder
ForeignStreams ==
    { <<OpRGB, 1, 2, 3>>,
      <<OpRGB, 1, 2, 3, OpRGB, 4, 5, 6>>,
      <<OpRGB, 1, 2>>,
      <<OpRGB, 1, 2, 3, OpRGB, 9>>,
      <<OpRGB, 1, 2, 3, 170>>,
      <<OpRGB, 1, 2, 3, 7>>,
      <<5>>,
      <<OpRGB, 1, 2, 3, 127, 193>>,
      <<OpRGB, 1, 2, 3, 0, 0, 0, 0, 0, 0, 0, 1, OpRGB, 4, 5, 6>> }

\* a QOI file on disk written by another program
ForeignFiles ==
    {[exists |-> TRUE, width |-> 1, height |-> 1, data |-> s \o endMarker] :
        s \in ForeignStreams}
    \cup {[exists |-> TRUE, width |-> 2, height |-> 1,
            data |-> <<OpRGB, 1, 2, 3, OpRGB, 4, 5, 6>> \o endMarker]}

\* m_width / m_height of a new object: unset, and never computed with
Unset == -1

\* ----------------------------------------------------------------- state
VARIABLES
    index,        \* RGBValue index[64]
    m_RGBBytes,   \* vector<RGBValue>
    m_QOIBytes,   \* vector<uint8_t>
    m_width,
    m_height,
    bmpFile,      \* the BMP file readBMP opens
    qoiFile,      \* the QOI file writeQOI writes and readQOI opens
    pc,           \* position of the program
    curIdx,       \* local of encode() / decode()
    prevPixel,    \* local of encode()
    passes,       \* encode()/decode() calls so far
    lastOp,       \* what the last loop iteration did
    encIn,        \* m_RGBBytes when the last encode() was called
    encFresh,     \* that call found index all null and m_QOIBytes empty
    encOut,       \* m_QOIBytes when that call returned
    encHist       \* (index, prevPixel) after each pixel of the last encode()

vars == <<index, m_RGBBytes, m_QOIBytes, m_width, m_height, bmpFile, qoiFile,
          pc, curIdx, prevPixel, passes, lastOp, encIn, encFresh, encOut, encHist>>

objVars == <<index, m_RGBBytes, m_QOIBytes, m_width, m_height>>
fileVars == <<bmpFile, qoiFile>>
histVars == <<encIn, encFresh, encOut, encHist>>

\* encOut while the last encode() has not returned
NoBytes == [returned |-> FALSE, bytes |-> <<>>]

NoPixel == [red |-> 0, green |-> 0, blue |-> 0, isNull |-> TRUE]

NoOp == [kind |-> "none", px |-> NoPixel, prev |-> NoPixel, n |-> 0,
         bytes |-> <<>>, absent |-> FALSE, oob |-> FALSE]

Op(k, px, prev, n, bytes, absent, oob) ==
    [kind |-> k, px |-> px, prev |-> prev, n |-> n,
     bytes |-> bytes, absent |-> absent, oob |-> oob]

\* QOI_Image(): every slot is RGBValue(); a slot's unset channels are
\* chosen when the slot is read
EmptyIndex == [i \in 0..(CacheSize - 1) |-> NoPixel]

Init ==
    /\ index = EmptyIndex
    /\ m_RGBBytes = <<>>
    /\ m_QOIBytes = <<>>
    /\ m_width = Unset
    /\ m_height = Unset
    /\ \/ bmpFile \in BmpFiles /\ qoiFile = NoFile
       \/ bmpFile = NoFile /\ qoiFile \in ForeignFiles
    /\ pc = "idle"
    /\ curIdx = 0
    /\ prevPixel = NoPixel
    /\ passes = 0
    /\ lastOp = NoOp
    /\ encIn = <<>>
    /\ encFresh = FALSE
    /\ encOut = NoBytes
    /\ encHist = <<>>

\* ---------------------------------------------------------------- encode
Pixels(i) == m_RGBBytes[i + 1]

\* QOI_Image(): a new object; the files on disk stay
Construct ==
    /\ pc = "idle"
    /\ index' = EmptyIndex
    /\ m_RGBBytes' = <<>>
    /\ m_QOIBytes' = <<>>
    /\ m_width' = Unset
    /\ m_height' = Unset
    /\ lastOp' = NoOp
    /\ UNCHANGED <<fileVars, pc, curIdx, prevPixel, passes, histVars>>

\* readBMP: m_RGBBytes = {}; on a missing file nothing else is set
readBMP ==
    /\ pc = "idle"
    /\ IF bmpFile.exists
         THEN /\ m_RGBBytes' = bmpFile.pixels
              /\ m_width' = bmpFile.width
              /\ m_height' = bmpFile.height
         ELSE /\ m_RGBBytes' = <<>>
              /\ UNCHANGED <<m_width, m_height>>
    /\ lastOp' = NoOp
    /\ UNCHANGED <<index, m_QOIBytes, fileVars, pc, curIdx, prevPixel, passes, histVars>>

\* encode(), lines 255-257: curIdx = 0 and a default-constructed prevPixel
encode_Begin ==
    /\ pc = "idle"
    /\ passes < MaxPasses
    /\ passes' = passes + 1
    /\ pc' = "enc_loop"
    /\ curIdx' = 0
    /\ prevPixel' \in NullRGBValues
    /\ lastOp' = NoOp
    /\ encIn' = m_RGBBytes
    /\ encFresh' = (index = EmptyIndex /\ m_QOIBytes = <<>>)
    /\ encOut' = NoBytes
    /\ encHist' = <<>>
    /\ UNCHANGED <<objVars, fileVars>>

\* the do-while of lines 264-269, as far as it reads inside the vector:
\* oob tells that the next comparison reads m_RGBBytes[size()]
RECURSIVE ScanRun(_, _, _, _)
ScanRun(pixels, prev, cur, run) ==
    LET r == run + 1
        c == cur + 1
    IN  IF r >= RunCap THEN [run |-> r, cur |-> c, oob |-> FALSE]
        ELSE IF c >= Len(pixels) THEN [run |-> r, cur |-> c, oob |-> TRUE]
        ELSE IF PixelEq(pixels[c + 1], prev) THEN ScanRun(pixels, prev, c, r)
        ELSE [run |-> r, cur |-> c, oob |-> FALSE]

\* line 271: 0b11000000 + runLength
RunByte(runLength) == U8(TagRun + runLength)

DiffInRange_Wide(dr, dg, db) ==
    (-2 <= dr /\ dr <= 2) /\ (-2 <= dg /\ dg <= 2) /\ (-2 <= db /\ db <= 2)

\* line 282
DiffInRange(dr, dg, db) ==
    (-2 <= dr /\ dr <= 1) /\ (-2 <= dg /\ dg <= 1) /\ (-2 <= db /\ db <= 1)

\* line 283
DiffByte(dr, dg, db) == U8(TagDiff + ((dr + 2) * 16) + ((dg + 2) * 4) + (db + 2))

LumaInRange_Narrow(dr, dg, db) ==
    (-8 <= dg /\ dg <= 7) /\ (-8 <= (dr - dg) /\ (dr - dg) <= 7)
        /\ (-8 <= (db - dg) /\ (db - dg) <= 7)

\* line 289
LumaInRange(dr, dg, db) ==
    (-32 <= dg /\ dg <= 31) /\ (-8 <= (dr - dg) /\ (dr - dg) <= 7)
        /\ (-8 <= (db - dg) /\ (db - dg) <= 7)

\* lines 290-291
LumaBytes(dr, dg, db) ==
    <<U8(TagLuma + dg + 32), U8(((dr - dg + 8) * 16) + (db - dg + 8))>>

\* lines 317-320
RGBBytes(p) == <<OpRGB, p.red, p.green, p.blue>>

\* the slots of idx that are not null, with their pixels
Filled(idx) == {<<i, idx[i]>> : i \in {j \in DOMAIN idx : ~idx[j].isNull}}

\* the encoder's cache and previous pixel after a pixel
Snapshot(idx, prev) == [index |-> Filled(idx), prevPixel |-> prev]

\* line 261: the run test
AtRun ==
    /\ pc = "enc_loop"
    /\ curIdx < Len(m_RGBBytes)
    /\ curIdx > 0
    /\ PixelEq(Pixels(curIdx), prevPixel)

\* line 277 is reached: after a run, or when the run test fails
AtPixel ==
    \/ pc = "enc_diff"
    \/ pc = "enc_loop" /\ curIdx < Len(m_RGBBytes) /\ ~AtRun

CurDr == Pixels(curIdx).red - prevPixel.red
CurDg == Pixels(curIdx).green - prevPixel.green
CurDb == Pixels(curIdx).blue - prevPixel.blue

\* the loop is left: by line 259 or by the break of line 274
EncodeReturns(bytes) ==
    /\ pc' = "idle"
    /\ curIdx' = 0
    /\ prevPixel' = NoPixel
    /\ encOut' = [returned |-> TRUE, bytes |-> bytes]

\* lines 261-275 (QOI_OP_RUN)
encode_Run ==
    /\ AtRun
    /\ LET s == ScanRun(m_RGBBytes, prevPixel, curIdx, 0)
       IN  \/ \E extra \in (IF s.oob THEN 0..Min(MaxOverrun, RunCap - s.run) ELSE {0}) :
                LET run == s.run + extra
                    cur == s.cur + extra
                    bytes == Append(m_QOIBytes, RunByte(run))
                IN  /\ m_QOIBytes' = bytes
                    /\ encHist' = encHist \o Rep(Snapshot(index, prevPixel), s.run)
                    /\ lastOp' = Op("enc_run", Pixels(curIdx), prevPixel, run,
                                    <<RunByte(run)>>, FALSE, s.oob)
                    /\ IF cur >= Len(m_RGBBytes)
                         THEN EncodeReturns(bytes)
                         ELSE /\ pc' = "enc_diff"
                              /\ curIdx' = cur
                              /\ UNCHANGED <<prevPixel, encOut>>
                    /\ UNCHANGED <<index, m_RGBBytes, m_width, m_height, fileVars,
                                   passes, encIn, encFresh>>
           \/ /\ s.oob
              /\ pc' = "crashed"
              /\ lastOp' = Op("enc_run", Pixels(curIdx), prevPixel, s.run,
                              <<>>, FALSE, TRUE)
              /\ UNCHANGED <<objVars, fileVars, curIdx, prevPixel, passes, histVars>>

\* what every branch of lines 277-323 does after its push_back
EncodePixel(kind, bytes, idx) ==
    /\ m_QOIBytes' = m_QOIBytes \o bytes
    /\ index' = idx
    /\ prevPixel' = Pixels(curIdx)
    /\ curIdx' = curIdx + 1
    /\ pc' = "enc_loop"
    /\ encHist' = Append(encHist, Snapshot(idx, Pixels(curIdx)))
    /\ lastOp' = Op(kind, Pixels(curIdx), prevPixel, hash(Pixels(curIdx)),
                    bytes, index[hash(Pixels(curIdx))].isNull, FALSE)
    /\ UNCHANGED <<m_RGBBytes, m_width, m_height, fileVars, passes, encIn,
                   encFresh, encOut>>

\* lines 282-288 (QOI_OP_DIFF)
encode_Diff ==
    /\ AtPixel
    /\ DiffInRange(CurDr, CurDg, CurDb)
    /\ EncodePixel("enc_diff", <<DiffByte(CurDr, CurDg, CurDb)>>, index)

\* lines 289-296 (QOI_OP_LUMA)
encode_Luma ==
    /\ AtPixel
    /\ ~DiffInRange(CurDr, CurDg, CurDb)
    /\ LumaInRange(CurDr, CurDg, CurDb)
    /\ EncodePixel("enc_luma", LumaBytes(CurDr, CurDg, CurDb), index)

AtIndex ==
    /\ AtPixel
    /\ ~DiffInRange(CurDr, CurDg, CurDb)
    /\ ~LumaInRange(CurDr, CurDg, CurDb)

\* lines 300-307: the slot is null; it is filled and its number is emitted
encode_IndexMiss ==
    /\ AtIndex
    /\ index[hash(Pixels(curIdx))].isNull
    /\ EncodePixel("enc_index", <<hash(Pixels(curIdx))>>,
                   [index EXCEPT ![hash(Pixels(curIdx))] = Pixels(curIdx)])

\* lines 308-314: the slot holds this pixel
encode_IndexHit ==
    /\ AtIndex
    /\ ~index[hash(Pixels(curIdx))].isNull
    /\ PixelEq(index[hash(Pixels(curIdx))], Pixels(curIdx))
    /\ EncodePixel("enc_index", <<hash(Pixels(curIdx))>>, index)

\* lines 316-323 (QOI_OP_RGB)
encode_RGB ==
    /\ AtIndex
    /\ ~index[hash(Pixels(curIdx))].isNull
    /\ ~PixelEq(index[hash(Pixels(curIdx))], Pixels(curIdx))
    /\ EncodePixel("enc_rgb", RGBBytes(Pixels(curIdx)), index)

\* line 259: the loop test fails
encode_End ==
    /\ pc = "enc_loop"
    /\ curIdx >= Len(m_RGBBytes)
    /\ EncodeReturns(m_QOIBytes)
    /\ lastOp' = NoOp
    /\ UNCHANGED <<objVars, fileVars, passes, encIn, encFresh, encHist>>

\* ----------------------------------------------------------- the QOI file
\* writeQOI: header, the data chunks, the end marker
writeQOI ==
    /\ pc = "idle"
    /\ qoiFile' = [exists |-> TRUE, width |-> m_width, height |-> m_height,
                   data |-> m_QOIBytes \o endMarker]
    /\ lastOp' = NoOp
    /\ UNCHANGED <<objVars, bmpFile, pc, curIdx, prevPixel, passes, histVars>>

\* lines 128-141: the last 8 bytes read are the end marker
EndsWithMarker(data, k) == k >= 8 /\ SubSeq(data, k - 7, k) = endMarker

\* lines 122-142: bytes are taken until the first end marker, or to EOF
ReadChunks(data) ==
    LET hits == {k \in 1..Len(data) : EndsWithMarker(data, k)}
    IN  IF hits = {} THEN data
        ELSE SubSeq(data, 1, (CHOOSE k \in hits : \A j \in hits : k <= j) - 8)

\* readQOI: m_QOIBytes = {}; on a missing file nothing else is set
readQOI ==
    /\ pc = "idle"
    /\ IF qoiFile.exists
         THEN /\ m_QOIBytes' = ReadChunks(qoiFile.data)
              /\ m_width' = qoiFile.width
              /\ m_height' = qoiFile.height
         ELSE /\ m_QOIBytes' = <<>>
              /\ UNCHANGED <<m_width, m_height>>
    /\ lastOp' = NoOp
    /\ UNCHANGED <<index, m_RGBBytes, fileVars, pc, curIdx, prevPixel, passes, histVars>>

\* ---------------------------------------------------------------- decode
\* decode(), lines 334-336
decode_Begin ==
    /\ pc = "idle"
    /\ passes < MaxPasses
    /\ passes' = passes + 1
    /\ pc' = "dec_loop"
    /\ curIdx' = 0
    /\ m_RGBBytes' = <<>>
    /\ lastOp' = NoOp
    /\ UNCHANGED <<index, m_QOIBytes, m_width, m_height, fileVars, prevPixel, histVars>>

\* line 339 has read curByte
AtByte == pc = "dec_loop" /\ curIdx < Len(m_QOIBytes)
curByte == m_QOIBytes[curIdx + 1]

\* m_QOIBytes[i]: the byte, or g when i is past the end
ReadByte(i, g) == IF i < Len(m_QOIBytes) THEN m_QOIBytes[i + 1] ELSE g

\* m_RGBBytes.back(): the last pixel, or g when the vector is empty
Back(g) == IF Len(m_RGBBytes) > 0 THEN m_RGBBytes[Len(m_RGBBytes)] ELSE g

\* the 2-bit tag curByte >> 6 and the 6-bit payload curByte & 0b111111
Tag(b) == b \div 64
Low6(b) == b % 64

\* line 386: the number of copies a run byte stands for
RunCopies(b) == Low6(b)

\* lines 361-365
DiffPixel(b, back) ==
    RGBValue(U8(back.red + (((b \div 16) % 4) - 2)),
             U8(back.green + (((b \div 4) % 4) - 2)),
             U8(back.blue + ((b % 4) - 2)))

\* lines 373-379
LumaPixel(b, b2, back) ==
    LET dg == Low6(b) - 32
        dr == (((b2 \div 16) % 16) - 8) + dg
        db == ((b2 % 16) - 8) + dg
    IN  RGBValue(U8(back.red + dr), U8(back.green + dg), U8(back.blue + db))

\* what a branch of lines 341-390 leaves: the pixels pushed, bytes consumed
DecodeStep(kind, pushed, used, back, absent, oob) ==
    /\ m_RGBBytes' = m_RGBBytes \o pushed
    /\ curIdx' = curIdx + used
    /\ lastOp' = Op(kind, IF pushed = <<>> THEN NoPixel ELSE pushed[1], back,
                    Len(pushed), SubSeq(m_QOIBytes, curIdx + 1,
                                        Min(curIdx + used, Len(m_QOIBytes))),
                    absent, oob)
    /\ UNCHANGED <<index, m_QOIBytes, m_width, m_height, fileVars, pc, prevPixel,
                   passes, histVars>>

\* an undefined read that ends the process
DecodeCrash(kind) ==
    /\ pc' = "crashed"
    /\ lastOp' = Op(kind, NoPixel, NoPixel, 0, <<curByte>>, FALSE, TRUE)
    /\ UNCHANGED <<objVars, fileVars, curIdx, prevPixel, passes, histVars>>

\* lines 341-350 (QOI_OP_RGB): three bytes are read, present or not
decode_RGB ==
    /\ AtByte
    /\ curByte = OpRGB
    /\ \/ \E g1 \in GarbageBytes, g2 \in GarbageBytes, g3 \in GarbageBytes :
            DecodeStep("dec_rgb",
                       <<RGBValue(ReadByte(curIdx + 1, g1), ReadByte(curIdx + 2, g2),
                                  ReadByte(curIdx + 3, g3))>>,
                       4, NoPixel, FALSE, curIdx + 3 >= Len(m_QOIBytes))
       \/ curIdx + 3 >= Len(m_QOIBytes) /\ DecodeCrash("dec_rgb")

\* lines 352-357 (QOI_OP_INDEX): the slot is pushed, null or not
decode_Index ==
    /\ AtByte
    /\ curByte # OpRGB
    /\ Tag(curByte) = 0
    /\ \E g \in NullRGBValues :
         DecodeStep("dec_index",
                    <<IF index[curByte].isNull THEN g ELSE index[curByte]>>,
                    1, NoPixel, index[curByte].isNull, FALSE)

\* lines 359-368 (QOI_OP_DIFF)
decode_Diff ==
    /\ AtByte
    /\ curByte # OpRGB
    /\ Tag(curByte) = 1
    /\ \/ \E g \in GarbagePixels :
            DecodeStep("dec_diff", <<DiffPixel(curByte, Back(g))>>, 1, Back(g),
                       FALSE, FALSE)
       \/ Len(m_RGBBytes) = 0 /\ DecodeCrash("dec_diff")

\* lines 370-382 (QOI_OP_LUMA): the second byte is read, present or not
decode_Luma ==
    /\ AtByte
    /\ curByte # OpRGB
    /\ Tag(curByte) = 2
    /\ \/ \E g \in GarbagePixels, g2 \in GarbageBytes :
            DecodeStep("dec_luma",
                       <<LumaPixel(curByte, ReadByte(curIdx + 1, g2), Back(g))>>,
                       2, Back(g), FALSE, curIdx + 1 >= Len(m_QOIBytes))
       \/ /\ Len(m_RGBBytes) = 0 \/ curIdx + 1 >= Len(m_QOIBytes)
          /\ DecodeCrash("dec_luma")

\* lines 384-390 (QOI_OP_RUN)
decode_Run ==
    /\ AtByte
    /\ curByte # OpRGB
    /\ Tag(curByte) = 3
    /\ \/ \E g \in GarbagePixels :
            DecodeStep("dec_run", Rep(Back(g), RunCopies(curByte)), 1, Back(g),
                       FALSE, FALSE)
       \/ /\ Len(m_RGBBytes) = 0 /\ RunCopies(curByte) > 0
          /\ DecodeCrash("dec_run")

\* line 338: the loop test fails
decode_End ==
    /\ pc = "dec_loop"
    /\ curIdx >= Len(m_QOIBytes)
    /\ pc' = "idle"
    /\ curIdx' = 0
    /\ lastOp' = NoOp
    /\ UNCHANGED <<objVars, fileVars, prevPixel, passes, histVars>>

Next ==
    \/ Construct
    \/ readBMP
    \/ encode_Begin
    \/ encode_Run
    \/ encode_Diff
    \/ encode_Luma
    \/ encode_IndexMiss
    \/ encode_IndexHit
    \/ encode_RGB
    \/ encode_End
    \/ writeQOI
    \/ readQOI
    \/ decode_Begin
    \/ decode_RGB
    \/ decode_Index
    \/ decode_Diff
    \/ decode_Luma
    \/ decode_Run
    \/ decode_End

Spec == Init /\ [][Next]_vars

\* ---------------------------------------------------------------- claims
\* decode() is about to return (line 338 fails)
DecodeReturns == pc = "dec_loop" /\ curIdx >= Len(m_QOIBytes)

\* m_QOIBytes is what the first encode() of a new object produced from encIn
HoldsEncoded == encFresh /\ encOut.returned /\ m_QOIBytes = encOut.bytes

SamePixels(a, b) == Len(a) = Len(b) /\ \A i \in 1..Len(a) : PixelEq(a[i], b[i])

EncKinds == {"enc_diff", "enc_luma", "enc_index", "enc_rgb"}

\* C1: when decode() returns from the bytes a first encode() produced from a
\* grid P, m_RGBBytes is P, pixel for pixel
C1_RoundTrip ==
    (DecodeReturns /\ HoldsEncoded) => SamePixels(m_RGBBytes, encIn)

\* C2: while decode() runs over the bytes of an encode(), once it has
\* produced the same first k pixels its cache and last pixel are the
\* encoder's cache and prevPixel after k pixels
C2_Lockstep ==
    LET k == Len(m_RGBBytes)
    IN  (/\ pc = "dec_loop"
         /\ HoldsEncoded
         /\ k \in 1..Len(encHist)
         /\ SamePixels(m_RGBBytes, SubSeq(encIn, 1, k)))
        => /\ Filled(index) = encHist[k].index
           /\ PixelEq(m_RGBBytes[k], encHist[k].prevPixel)

\* C3: a run byte the encoder emits is never the QOI_OP_RGB byte 0xFE
C3_RunNeverLiteral ==
    (lastOp.kind = "enc_run" /\ lastOp.bytes # <<>>) => lastOp.bytes[1] # 254

\* C4: a run of L pixels is emitted as the one byte 0b11000000 + (L - 1),
\* and a run byte with payload v makes the decoder append v + 1 pixels
C4_RunBiased ==
    /\ (lastOp.kind = "enc_run" /\ lastOp.bytes # <<>>)
          => lastOp.bytes = <<192 + (lastOp.n - 1)>>
    /\ lastOp.kind = "dec_run" => lastOp.n = (lastOp.bytes[1] % 64) + 1

\* C5: decode() never reads m_QOIBytes at an index >= its length; an opcode
\* whose payload is missing ends the call instead
C5_NoReadPastEnd ==
    ~(lastOp.kind \in {"dec_rgb", "dec_luma"} /\ lastOp.oob)

\* C6: an index opcode of a null slot produces no pixel
C6_IndexNotPresent ==
    ~(lastOp.kind = "dec_index" /\ lastOp.absent /\ lastOp.n > 0)

\* the object holds the header and the chunks readQOI took from the file
HoldsFile ==
    /\ qoiFile.exists
    /\ m_width = qoiFile.width /\ m_height = qoiFile.height
    /\ m_width # Unset /\ m_height # Unset
    /\ m_QOIBytes = ReadChunks(qoiFile.data)

\* C7: decoding what readQOI loaded stops at width * height pixels: it
\* never holds more, whatever bytes are left
C7_StopsAtPixelCount ==
    (pc = "dec_loop" /\ HoldsFile) => Len(m_RGBBytes) <= m_width * m_height

\* the third pixel of (10,10,10), (20,20,20), (10,10,10) has just been
\* encoded by the first encode() of a new object
AtThirdOfABA ==
    /\ pc = "enc_loop" /\ curIdx = 3
    /\ encFresh
    /\ encIn = <<RGBValue(10, 10, 10), RGBValue(20, 20, 20), RGBValue(10, 10, 10)>>

\* C8 as stated: that third pixel is emitted as the index opcode of slot
\* hash((10,10,10)) = 22
C8_ThirdIsIndex ==
    AtThirdOfABA => lastOp.kind = "enc_index" /\ lastOp.bytes = <<22>>

\* C8 as amended: that third pixel is emitted as the luma opcode 0x96 0x88
\* (green difference -10, chroma differences 0), because the luma check
\* comes before the cache check
C8_ThirdIsLuma ==
    AtThirdOfABA => lastOp.kind = "enc_luma" /\ lastOp.bytes = <<150, 136>>

\* the third pixel has been emitted, as a luma opcode
C8_Witness ==
    AtThirdOfABA /\ lastOp.kind = "enc_luma" /\ lastOp.px = RGBValue(10, 10, 10)

\* C9: the first encode() of four pixels (10,20,30) returns the single byte
\* 0b11000011, and decoding it gives the four pixels back
C9_FlatImage ==
    LET flat == Rep(RGBValue(10, 20, 30), 4)
    IN  /\ (encFresh /\ encOut.returned /\ encIn = flat) => encOut.bytes = <<195>>
        /\ (DecodeReturns /\ HoldsEncoded /\ encIn = flat)
              => SamePixels(m_RGBBytes, flat)

\* C10: a pixel that is not part of a run is emitted as the one byte
\* 01 (dr+2) (dg+2) (db+2) exactly when its three differences from prevPixel
\* are all in -2..1; (1,1,1) is a delta opcode, (2,0,0) is not
C10_DeltaBoundary ==
    lastOp.kind \in EncKinds =>
        LET dr == lastOp.px.red - lastOp.prev.red
            dg == lastOp.px.green - lastOp.prev.green
            db == lastOp.px.blue - lastOp.prev.blue
            small == dr \in -2..1 /\ dg \in -2..1 /\ db \in -2..1
        IN  /\ lastOp.kind = "enc_diff" <=> small
            /\ small => lastOp.bytes = <<64 + (dr + 2) * 16 + (dg + 2) * 4 + (db + 2)>>
            /\ (dr = 1 /\ dg = 1 /\ db = 1) => lastOp.bytes = <<127>>
            /\ (dr = 2 /\ dg = 0 /\ db = 0) => lastOp.kind \in {"enc_luma", "enc_rgb"}

\* a pixel differing by (1,1,1) has been emitted as the delta byte 0x7F
C10_Witness ==
    /\ lastOp.kind = "enc_diff"
    /\ lastOp.px = RGBValue(11, 11, 11) /\ lastOp.prev = RGBValue(10, 10, 10)
    /\ lastOp.bytes = <<127>>

\* a pixel differing by (2,0,0) has been emitted as a luma opcode
C10_WitnessLuma ==
    /\ lastOp.kind = "enc_luma"
    /\ lastOp.px = RGBValue(12, 10, 10) /\ lastOp.prev = RGBValue(10, 10, 10)

\* the pixel just encoded was not a delta or a luma opcode: line 299 was reached
ReachedCacheCheck == lastOp.kind \in {"enc_index", "enc_rgb"}

\* C11: a pixel that reaches the cache check while its slot is null is
\* stored in the slot and emitted as 0xFE and its three channels, never as
\* an index opcode
C11_SilentMiss ==
    (ReachedCacheCheck /\ lastOp.absent)
        => /\ lastOp.kind = "enc_rgb"
           /\ lastOp.bytes = <<254, lastOp.px.red, lastOp.px.green, lastOp.px.blue>>
           /\ index[lastOp.n] = lastOp.px

\* encode() or decode() has been entered and has not handled anything yet
PassStart == pc \in {"enc_loop", "dec_loop"} /\ lastOp.kind = "none" /\ curIdx = 0

\* C12: when encode() or decode() starts, every slot of index is null
C12_CacheOwnedByPass ==
    PassStart => \A i \in 0..63 : index[i].isNull

DecDeltaKinds == {"dec_diff", "dec_luma"}

\* C13: the first pixel of encode() is compared with (0,0,0), prevPixel is
\* the pixel after each pixel encoded, and a delta or luma opcode that opens
\* a stream is decoded relative to (0,0,0)
C13_PrevRegister ==
    /\ (pc = "enc_loop" /\ lastOp.kind \in EncKinds /\ curIdx = 1)
          => (lastOp.prev.red = 0 /\ lastOp.prev.green = 0 /\ lastOp.prev.blue = 0)
    /\ (pc = "enc_loop" /\ lastOp.kind \in EncKinds) => PixelEq(prevPixel, lastOp.px)
    /\ (lastOp.kind \in DecDeltaKinds /\ Len(m_RGBBytes) = 1)
          => (lastOp.prev.red = 0 /\ lastOp.prev.green = 0 /\ lastOp.prev.blue = 0)
    /\ ~(pc = "crashed" /\ lastOp.kind \in DecDeltaKinds)

\* the last iteration handled a pixel: encoded it, or pushed it
PixelKinds ==
    EncKinds \cup {"enc_run", "dec_rgb", "dec_index", "dec_diff", "dec_luma", "dec_run"}

\* C14: after a pixel p has been encoded or decoded by any path, slot
\* hash(p) of index is not null and holds p
C14_AlwaysInserted ==
    (pc # "crashed" /\ lastOp.kind \in PixelKinds /\ lastOp.n > 0)
        => LET p == lastOp.px
               h == (3 * p.red + 5 * p.green + 7 * p.blue) % 64
           IN  ~index[h].isNull /\ PixelEq(index[h], p)

\* C16: the run scan of encode() never reads m_RGBBytes[size()]
C16_ScanInBounds ==
    ~(lastOp.kind = "enc_run" /\ lastOp.oob)

\* encode() as a function of the grid alone: the byte sequences the loop of
\* lines 259-324 can return from position cur, with prev as prevPixel, idx
\* as index and out as m_QOIBytes
RECURSIVE EncodeLoop(_, _, _, _, _), EncodeStep(_, _, _, _, _)
EncodeLoop(P, cur, prev, idx, out) ==
    IF cur >= Len(P) THEN {out}
    ELSE IF cur > 0 /\ PixelEq(P[cur + 1], prev)
      THEN LET s == ScanRun(P, prev, cur, 0)
           IN  IF s.oob
                 THEN {Append(out, RunByte(s.run + extra)) :
                          extra \in 0..Min(MaxOverrun, RunCap - s.run)}
                 ELSE IF s.cur >= Len(P) THEN {Append(out, RunByte(s.run))}
                 ELSE EncodeStep(P, s.cur, prev, idx, Append(out, RunByte(s.run)))
      ELSE EncodeStep(P, cur, prev, idx, out)

\* lines 277-323 for the pixel at cur, then the rest of the loop
EncodeStep(P, cur, prev, idx, out) ==
    LET p == P[cur + 1]
        dr == p.red - prev.red
        dg == p.green - prev.green
        db == p.blue - prev.blue
        h == hash(p)
    IN  IF DiffInRange(dr, dg, db)
          THEN EncodeLoop(P, cur + 1, p, idx, Append(out, DiffByte(dr, dg, db)))
        ELSE IF LumaInRange(dr, dg, db)
          THEN EncodeLoop(P, cur + 1, p, idx, out \o LumaBytes(dr, dg, db))
        ELSE IF idx[h].isNull
          THEN EncodeLoop(P, cur + 1, p, [idx EXCEPT ![h] = p], Append(out, h))
        ELSE IF PixelEq(idx[h], p)
          THEN EncodeLoop(P, cur + 1, p, idx, Append(out, h))
        ELSE EncodeLoop(P, cur + 1, p, idx, out \o RGBBytes(p))

\* what the first encode() of a new object can return for the grid P
FreshEncode(P) ==
    UNION {EncodeLoop(P, 0, prev, EmptyIndex, <<>>) : prev \in NullRGBValues}

\* the first encode() of a new object returns one of FreshEncode
FreshEncodeAgrees ==
    (encFresh /\ encOut.returned) => encOut.bytes \in FreshEncode(encIn)

\* no QOI file exists: m_QOIBytes has been written by encode() calls only
OnlyPasses == ~qoiFile.exists

\* C15: whatever encode() and decode() calls came before on the object,
\* encode() returns for a grid P what the first encode() of a new object
\* returns for P
C15_EncodePure ==
    (encOut.returned /\ OnlyPasses) => encOut.bytes \in FreshEncode(encIn)

\* channel values the hash is tabulated for
ChannelSamples == {0, 52, 100, 255}

\* 3*red + 5*green + 7*blue as an unbounded integer
WeightedSum(p) == 3 * p.red + 5 * p.green + 7 * p.blue

\* C17: hash(p) is (3*red + 5*green + 7*blue) mod 64 of the unwrapped sum,
\* so it is in 0..63; an index opcode the encoder emits is that value, with
\* top bits 00, and the slot the decoder reads from the byte is slot hash(p),
\* inside the 64 slots
C17_HashRange ==
    /\ \A r \in ChannelSamples, g \in ChannelSamples, b \in ChannelSamples :
          /\ hash(RGBValue(r, g, b)) = (3 * r + 5 * g + 7 * b) % 64
          /\ hash(RGBValue(r, g, b)) \in 0..63
    /\ lastOp.kind = "enc_index"
          => /\ lastOp.bytes = <<WeightedSum(lastOp.px) % 64>>
             /\ lastOp.bytes[1] \div 64 = 0
    /\ lastOp.kind = "dec_index"
          => /\ lastOp.bytes[1] \in 0..63
             /\ lastOp.bytes[1] \in DOMAIN index
             /\ ~lastOp.absent
                   => /\ lastOp.px = index[lastOp.bytes[1]]
                      /\ lastOp.bytes[1] = WeightedSum(lastOp.px) % 64

\* (0,0,52), whose weighted sum 364 does not fit 8 bits, has been emitted as
\* index byte 44 and read back from slot 44 by decode()
C17_Witness ==
    /\ lastOp.kind = "dec_index" /\ ~lastOp.absent
    /\ lastOp.px = RGBValue(0, 0, 52)
    /\ lastOp.bytes = <<44>>
    /\ HoldsEncoded

====
